---- MODULE Spec2Model ----
(***************************************************************************)
(* Gemini Gallery: the App state container (media list, folders, filters,  *)
(* selection), the MediaModal component (prompt, status, rename, move,     *)
(* save) and the Gemini service wrappers, as one state machine.            *)
(*                                                                         *)
(* Strings the program trims, compares or searches are sequences of        *)
(* one-character strings.  Fixed user-facing messages are one-token        *)
(* sequences.  An await is a record in one of the in-flight sequences      *)
(* (uploads, requests, saves) holding the values its closure captured; the *)
(* continuation is a separate action.                                      *)
(***************************************************************************)
EXTENDS Integers, Sequences, FiniteSets, TLC

(* ------------------------------ bounds --------------------------------- *)
\* Date.now() values handed out: every completion that stamps an item gets a later one
MaxClock == 3
\* handleFiles calls that may be awaiting their timeout at once
MaxUploads == 2
\* handleAction calls that may be awaiting the service at once
MaxRequests == 2
\* handleSaveGenerated calls that may be awaiting base64ToBlob at once
MaxSaves == 1
\* folders that may exist (the four defaults plus user-created ones)
MaxFolders == 6
\* entries the media list may hold, files of pending uploads included
MaxItems == 3

(* ------------------------------ strings -------------------------------- *)
Null == [null |-> TRUE]
NullText == <<"null">>
Undefined == <<"undefined">>

IsSpace(c) == c = " "

RECURSIVE TrimStart(_)
TrimStart(s) ==
  IF s # <<>> /\ IsSpace(Head(s)) THEN TrimStart(Tail(s)) ELSE s

RECURSIVE TrimEnd(_)
TrimEnd(s) ==
  IF s # <<>> /\ IsSpace(s[Len(s)]) THEN TrimEnd(SubSeq(s, 1, Len(s) - 1)) ELSE s

\* String.prototype.trim
Trim(s) == TrimEnd(TrimStart(s))

\* a JavaScript string used as a condition: the empty string is falsy
Truthy(s) == s # <<>> /\ s # Undefined /\ s # NullText

\* String.prototype.startsWith
StartsWith(s, p) == Len(s) >= Len(p) /\ SubSeq(s, 1, Len(p)) = p

LowerChar(c) ==
  CASE c = "A" -> "a"
    [] c = "V" -> "v"
    [] c = "E" -> "e"
    [] OTHER -> c

\* a conversion that keeps the case
ToLowerCase_KeepingCase(s) == s

\* String.prototype.toLowerCase
ToLowerCase(s) == [i \in 1..Len(s) |-> LowerChar(s[i])]

\* String.prototype.includes
Includes(s, q) ==
  \E k \in 0..(Len(s) - Len(q)) : SubSeq(s, k + 1, k + Len(q)) = q

Range(s) == {s[i] : i \in DOMAIN s}

\* the sequence s without its i-th element
RemoveAt(s, i) == SubSeq(s, 1, i - 1) \o SubSeq(s, i + 1, Len(s))

(* ------------------------------ files ---------------------------------- *)
MimePng == <<"i", "m", "a", "g", "e", "/", "p", "n", "g">>
MimeMp4 == <<"v", "i", "d", "e", "o", "/", "m", "p", "4">>
MimeTxt == <<"t", "e", "x", "t", "/", "p", "l", "a", "i", "n">>

ImageFile == [name |-> <<"a">>, type |-> MimePng, data |-> "img"]
VideoFile == [name |-> <<"V">>, type |-> MimeMp4, data |-> "vid"]
TextFile == [name |-> <<"t">>, type |-> MimeTxt, data |-> "txt"]

\* URL.createObjectURL: a blob URL naming the blob's bytes
CreateObjectURL(blob) == [blob |-> blob.data]

\* a classification that takes every file that is not a video for an image
getFileType_EveryFile(file) ==
  IF StartsWith(file.type, <<"v", "i", "d", "e", "o", "/">>) THEN "video" ELSE "image"

getFileType(file) ==
  IF StartsWith(file.type, <<"i", "m", "a", "g", "e", "/">>) THEN "image"
  ELSE IF StartsWith(file.type, <<"v", "i", "d", "e", "o", "/">>) THEN "video"
  ELSE "null"

DEFAULT_FOLDER == <<"G", "e", "n", "e", "l">>
DefaultFolders ==
  << DEFAULT_FOLDER,
     <<"F", "a", "v", "o", "r", "i", "l", "e", "r">>,
     <<"I", "s">>,
     <<"T", "a", "t", "i", "l">> >>

(* ------------------------------ state ---------------------------------- *)
VARIABLES
  mediaItems, selectedItem, folders, currentFolder, searchQuery, typeFilter,
  isUploading, newFolderInput, showNewFolderInput,
  prompt, status, resultText, generatedImageUrl, isEditingName, tempName,
  showSaveOptions, saveName,
  uploads, requests, saves, clock, nextId,
  session

appVars ==
  << mediaItems, selectedItem, folders, currentFolder, searchQuery, typeFilter,
     isUploading, newFolderInput, showNewFolderInput >>
modalVars ==
  << prompt, status, resultText, generatedImageUrl, isEditingName, tempName,
     showSaveOptions, saveName >>
vars == << appVars, modalVars, uploads, requests, saves, clock, nextId, session >>

(* ------------------------------ items ---------------------------------- *)
\* { ...item, ...updates }
Merge(item, updates) ==
  [k \in DOMAIN item |-> IF k \in DOMAIN updates THEN updates[k] ELSE item[k]]

Ids(list) == {list[i].id : i \in DOMAIN list}

\* mediaItems.find(i => i.id === id); Null when there is none
Find(list, id) ==
  IF \E i \in DOMAIN list : list[i].id = id
  THEN list[CHOOSE i \in DOMAIN list :
              list[i].id = id /\ \A j \in 1..(i - 1) : list[j].id # id]
  ELSE Null

\* the forEach of handleFiles: one item per file getFileType accepts, ids from the
\* uuid source in call order, all stamped with the same Date.now()
RECURSIVE NewItems(_, _, _, _)
NewItems(files, folder, firstId, now) ==
  IF files = <<>> THEN <<>>
  ELSE LET file == Head(files)
           type == getFileType(file)
       IN IF type # "null"
          THEN << [ id |-> firstId,
                    type |-> type,
                    url |-> CreateObjectURL(file),
                    file |-> file,
                    name |-> file.name,
                    timestamp |-> now,
                    aiDescription |-> Undefined,
                    isGenerated |-> FALSE,
                    folder |-> folder ] >>
               \o NewItems(Tail(files), folder, firstId + 1, now)
          ELSE NewItems(Tail(files), folder, firstId, now)

\* the filter predicate of filteredItems
Matches(item) ==
  LET matchesFolder == item.folder = currentFolder
      matchesType == typeFilter = "all" \/ item.type = typeFilter
      matchesSearch == Includes(ToLowerCase(item.name), ToLowerCase(searchQuery))
  IN matchesFolder /\ matchesType /\ matchesSearch

filteredItems == SelectSeq(mediaItems, Matches)

\* mediaItems.filter(i => i.folder === folder).length, the count on a folder button
FolderCount(folder) ==
  LET InFolder(i) == i.folder = folder
  IN Len(SelectSeq(mediaItems, InFolder))

(* ------------------------------ modal ---------------------------------- *)
EditedPrefix == <<"E", "d", "i", "t", "e", "d", "-">>

\* item.aiDescription || null
DescriptionOrNull(item) ==
  IF Truthy(item.aiDescription) THEN item.aiDescription ELSE NullText

\* the useEffect on [item]: runs when the modal mounts and whenever the item prop
\* is a new object
EffectReset(item) ==
  /\ prompt' = <<>>
  /\ status' = "IDLE"
  /\ resultText' = DescriptionOrNull(item)
  /\ generatedImageUrl' = Null
  /\ tempName' = item.name
  /\ saveName' = EditedPrefix \o item.name
  /\ showSaveOptions' = FALSE

\* the modal's state while no modal is mounted
Unmounted ==
  /\ prompt' = <<>>
  /\ status' = "IDLE"
  /\ resultText' = NullText
  /\ generatedImageUrl' = Null
  /\ isEditingName' = FALSE
  /\ tempName' = <<>>
  /\ showSaveOptions' = FALSE
  /\ saveName' = <<>>

(* ------------------------------ Init ----------------------------------- *)
\* what the user does with the gallery in one run; it selects the inputs the
\* environment offers and is read by no handler
Sessions == { "upload", "folders", "filter", "rename", "ask", "save" }

Init ==
  /\ mediaItems = <<>>
  /\ selectedItem = Null
  /\ folders = DefaultFolders
  /\ currentFolder = DEFAULT_FOLDER
  /\ searchQuery = <<>>
  /\ typeFilter = "all"
  /\ isUploading = FALSE
  /\ newFolderInput = <<>>
  /\ showNewFolderInput = FALSE
  /\ prompt = <<>>
  /\ status = "IDLE"
  /\ resultText = NullText
  /\ generatedImageUrl = Null
  /\ isEditingName = FALSE
  /\ tempName = <<>>
  /\ showSaveOptions = FALSE
  /\ saveName = <<>>
  /\ uploads = <<>>
  /\ requests = <<>>
  /\ saves = <<>>
  /\ clock = 0
  /\ nextId = 1
  /\ session \in Sessions

(* ------------------------------ App ------------------------------------ *)
\* files held by the handleFiles calls that have not resumed yet
RECURSIVE PendingFiles(_)
PendingFiles(pending) ==
  IF pending = <<>> THEN 0
  ELSE Len(Head(pending).files) + PendingFiles(Tail(pending))

\* handleFiles up to its await: the closure keeps the FileList and the render's
\* currentFolder
handleFiles(files) ==
  /\ Len(uploads) < MaxUploads
  /\ Len(mediaItems) + PendingFiles(uploads) + Len(files) <= MaxItems
  /\ isUploading' = TRUE
  /\ uploads' = Append(uploads, [files |-> files, currentFolder |-> currentFolder])
  /\ UNCHANGED << mediaItems, selectedItem, folders, currentFolder, searchQuery,
                  typeFilter, newFolderInput, showNewFolderInput, modalVars,
                  requests, saves, clock, nextId >>

\* onDrop of the upload area (present whether or not an upload is running)
handleDrop(files) ==
  /\ selectedItem = Null
  /\ files # <<>>
  /\ handleFiles(files)

\* onChange of the file input, which is rendered only while not uploading
handleChange(files) ==
  /\ selectedItem = Null
  /\ ~isUploading
  /\ files # <<>>
  /\ handleFiles(files)

\* a list update that puts the new items behind the previous ones
Prepend_Appending(newItems, prev) == prev \o newItems

\* a list update that forgets the previous items
Prepend_Replacing(newItems, prev) == newItems

\* [...newItems, ...prev]
Prepend(newItems, prev) == newItems \o prev

\* handleFiles after its await, for the k-th pending call
handleFilesResume(k) ==
  /\ k \in DOMAIN uploads
  /\ clock < MaxClock
  /\ LET u == uploads[k]
         newItems == NewItems(u.files, u.currentFolder, nextId, clock + 1)
     IN /\ mediaItems' = Prepend(newItems, mediaItems)
        /\ nextId' = nextId + Len(newItems)
  /\ clock' = clock + 1
  /\ isUploading' = FALSE
  /\ uploads' = RemoveAt(uploads, k)
  /\ UNCHANGED << selectedItem, folders, currentFolder, searchQuery, typeFilter,
                  newFolderInput, showNewFolderInput, modalVars, requests, saves >>

\* onClick of a folder button in the sidebar
setCurrentFolder(folder) ==
  /\ selectedItem = Null
  /\ folder \in Range(folders)
  /\ folder # currentFolder
  /\ currentFolder' = folder
  /\ UNCHANGED << mediaItems, selectedItem, folders, searchQuery, typeFilter,
                  isUploading, newFolderInput, showNewFolderInput, modalVars,
                  uploads, requests, saves, clock, nextId >>

\* the "Yeni Klasor" button
openNewFolderInput ==
  /\ selectedItem = Null
  /\ ~showNewFolderInput
  /\ showNewFolderInput' = TRUE
  /\ UNCHANGED << mediaItems, selectedItem, folders, currentFolder, searchQuery,
                  typeFilter, isUploading, newFolderInput, modalVars,
                  uploads, requests, saves, clock, nextId >>

\* onChange of the folder-name input
setNewFolderInput(text) ==
  /\ selectedItem = Null
  /\ showNewFolderInput
  /\ text # newFolderInput
  /\ newFolderInput' = text
  /\ UNCHANGED << mediaItems, selectedItem, folders, currentFolder, searchQuery,
                  typeFilter, isUploading, showNewFolderInput, modalVars,
                  uploads, requests, saves, clock, nextId >>

\* a folder update that forgets the previous folders
AddedFolders_Replacing(list, input) ==
  IF Truthy(Trim(input)) /\ Trim(input) \notin Range(list)
  THEN << Trim(input) >>
  ELSE list

\* a folder update that does not look for the name in the list
AddedFolders_Duplicating(list, input) ==
  IF Truthy(Trim(input)) THEN Append(list, Trim(input)) ELSE list

\* what addFolder does to the folder list
AddedFolders(list, input) ==
  IF Truthy(Trim(input)) /\ Trim(input) \notin Range(list)
  THEN Append(list, Trim(input))
  ELSE list

addFolder ==
  /\ selectedItem = Null
  /\ showNewFolderInput
  /\ Len(folders) < MaxFolders
  /\ folders' = AddedFolders(folders, newFolderInput)
  /\ IF folders' # folders
     THEN newFolderInput' = <<>> /\ showNewFolderInput' = FALSE
     ELSE UNCHANGED << newFolderInput, showNewFolderInput >>
  /\ UNCHANGED << mediaItems, selectedItem, currentFolder, searchQuery, typeFilter,
                  isUploading, modalVars, uploads, requests, saves, clock, nextId >>

setSearchQuery(text) ==
  /\ selectedItem = Null
  /\ text # searchQuery
  /\ searchQuery' = text
  /\ UNCHANGED << mediaItems, selectedItem, folders, currentFolder, typeFilter,
                  isUploading, newFolderInput, showNewFolderInput, modalVars,
                  uploads, requests, saves, clock, nextId >>

setTypeFilter(filter) ==
  /\ selectedItem = Null
  /\ filter # typeFilter
  /\ typeFilter' = filter
  /\ UNCHANGED << mediaItems, selectedItem, folders, currentFolder, searchQuery,
                  isUploading, newFolderInput, showNewFolderInput, modalVars,
                  uploads, requests, saves, clock, nextId >>

\* onClick of a grid tile: the modal mounts on that list entry
setSelectedItem(k) ==
  /\ selectedItem = Null
  /\ k \in DOMAIN mediaItems
  /\ Matches(mediaItems[k])
  /\ selectedItem' = mediaItems[k]
  /\ EffectReset(mediaItems[k])
  /\ isEditingName' = FALSE
  /\ UNCHANGED << mediaItems, folders, currentFolder, searchQuery, typeFilter,
                  isUploading, newFolderInput, showNewFolderInput,
                  uploads, requests, saves, clock, nextId >>

\* the modal's component is gone: its pending continuations keep running, their
\* setState calls on it do nothing
Orphaned(reqs) == [k \in 1..Len(reqs) |-> [reqs[k] EXCEPT !.mounted = FALSE]]

onClose ==
  /\ selectedItem # Null
  /\ selectedItem' = Null
  /\ Unmounted
  /\ requests' = Orphaned(requests)
  /\ UNCHANGED << mediaItems, folders, currentFolder, searchQuery, typeFilter,
                  isUploading, newFolderInput, showNewFolderInput,
                  uploads, saves, clock, nextId >>

\* a list update that does not compare ids
UpdatedList_Every(list, id, updates) ==
  [i \in 1..Len(list) |-> Merge(list[i], updates)]

\* handleUpdateItem as run from a render whose selectedItem was closureSelected:
\* the new list and the new selection
UpdatedList(list, id, updates) ==
  [i \in 1..Len(list) |-> IF list[i].id = id THEN Merge(list[i], updates) ELSE list[i]]

\* a selection update that leaves the selected copy alone
UpdatedSelection_ListOnly(selected, closureSelected, id, updates) == selected

UpdatedSelection(selected, closureSelected, id, updates) ==
  IF closureSelected # Null /\ closureSelected.id = id
  THEN IF selected # Null THEN Merge(selected, updates) ELSE Null
  ELSE selected

\* an update that is dropped unless its item is the one currently open
handleUpdateItem_IfOpen(id, updates, closureSelected) ==
  IF selectedItem # Null /\ selectedItem.id = id
  THEN /\ mediaItems' = UpdatedList(mediaItems, id, updates)
       /\ selectedItem' = Merge(selectedItem, updates)
       /\ EffectReset(selectedItem')
  ELSE UNCHANGED << mediaItems, selectedItem, prompt, status, resultText,
                    generatedImageUrl, tempName, saveName, showSaveOptions >>

\* handleUpdateItem, followed by the modal's effect when the modal that is mounted
\* receives a new item object
handleUpdateItem(id, updates, closureSelected) ==
  /\ mediaItems' = UpdatedList(mediaItems, id, updates)
  /\ selectedItem' = UpdatedSelection(selectedItem, closureSelected, id, updates)
  /\ IF closureSelected # Null /\ closureSelected.id = id /\ selectedItem # Null
     THEN EffectReset(selectedItem')
     ELSE UNCHANGED << prompt, status, resultText, generatedImageUrl, tempName,
                       saveName, showSaveOptions >>

(* ------------------------------ service -------------------------------- *)
Return(value) == [ok |-> TRUE, value |-> value]
Throw == [ok |-> FALSE]

\* a field the object does not have reads as undefined
Has(object, field) == field \in DOMAIN object

Part(data) == [inlineData |-> [mimeType |-> "image/png", data |-> data]]
TextPart == [text |-> <<"t">>]
Candidate(parts) == [index |-> 0, content |-> [role |-> "model", parts |-> parts]]

\* what ai.models.generateContent may answer to an image edit; "rejected" stands for
\* a rejected promise (fileToBase64 or the network call)
ImageResponses ==
  { [rejected |-> TRUE],
    [text |-> <<>>],
    [text |-> <<>>, candidates |-> <<>>],
    [text |-> <<>>, candidates |-> << [index |-> 0] >>],
    [text |-> <<>>, candidates |-> << [index |-> 0, content |-> [role |-> "model"]] >>],
    [text |-> <<>>, candidates |-> << Candidate(<<>>) >>],
    [text |-> <<>>, candidates |-> << Candidate(<< TextPart >>) >>],
    [text |-> <<>>, candidates |-> << Candidate(<< TextPart, Part(<<"g", "1">>) >>) >>],
    [text |-> <<>>, candidates |-> << Candidate(<< Part(<<>>), Part(<<"g", "2">>) >>) >>],
    [text |-> <<>>,
     candidates |-> << Candidate(<< Part(<<"g", "1">>), Part(<<"g", "2">>) >>) >>],
    [text |-> <<>>,
     candidates |-> << Candidate(<< TextPart >>), Candidate(<< Part(<<"g", "2">>) >>) >>] }

\* what it may answer to a video analysis
VideoResponses ==
  { [rejected |-> TRUE],
    [candidates |-> <<>>],
    [candidates |-> <<>>, text |-> <<>>],
    [candidates |-> <<>>, text |-> <<"o", "k">>] }

Rejected(response) == Has(response, "rejected")

\* `data:image/png;base64,${data}`
PngDataUrl(data) == [prefix |-> "data:image/png;base64,", data |-> data]

\* a part test that takes an empty inline part for an image
CarriesInlineData_AnyInline(part) == Has(part, "inlineData")

\* part.inlineData && part.inlineData.data
CarriesInlineData(part) ==
  Has(part, "inlineData") /\ Has(part.inlineData, "data") /\ Truthy(part.inlineData.data)

\* the for loop over the parts from index k on: the first part that carries inline
\* data, Null when there is none
RECURSIVE FirstInline(_, _)
FirstInline(parts, k) ==
  IF k > Len(parts) THEN Null
  ELSE IF CarriesInlineData(parts[k]) THEN parts[k]
       ELSE FirstInline(parts, k + 1)

editImageWithGemini(response) ==
  IF Rejected(response) THEN Throw
  ELSE IF /\ Has(response, "candidates")
          /\ Len(response.candidates) >= 1
          /\ Has(response.candidates[1], "content")
          /\ Has(response.candidates[1].content, "parts")
          /\ FirstInline(response.candidates[1].content.parts, 1) # Null
       THEN Return(PngDataUrl(
              FirstInline(response.candidates[1].content.parts, 1).inlineData.data))
       ELSE Throw

VideoFallback == <<"Video analiz edilemedi.">>

analyzeVideoWithGemini(response) ==
  IF Rejected(response) THEN Throw
  ELSE Return(IF Has(response, "text") /\ Truthy(response.text)
              THEN response.text
              ELSE VideoFallback)

(* ------------------------------ MediaModal ----------------------------- *)
EditedMessage == <<"Gorsel basariyla duzenlendi!">>
ErrorMessage == <<"Bir hata olustu. Lutfen tekrar deneyin.">>

\* item.type === 'image' && !status, the condition under which the preset buttons
\* are rendered; status is one of the AppStatus strings, and !status holds of the
\* empty string only
PresetsRendered ==
  /\ selectedItem # Null
  /\ selectedItem.type = "image"
  /\ status = ""

\* onChange of the prompt input, which is disabled while PROCESSING
setPrompt(text) ==
  /\ selectedItem # Null
  /\ status # "PROCESSING"
  /\ text # prompt
  /\ prompt' = text
  /\ UNCHANGED << appVars, status, resultText, generatedImageUrl, isEditingName,
                  tempName, showSaveOptions, saveName,
                  uploads, requests, saves, clock, nextId >>

\* handleAction up to its await; the closure keeps the render's item, which is the
\* App render's selectedItem
handleAction(customPrompt) ==
  LET promptToUse == IF Truthy(customPrompt) THEN customPrompt ELSE prompt
  IN IF ~Truthy(Trim(promptToUse))
     THEN UNCHANGED vars
     ELSE /\ Len(requests) < MaxRequests
          /\ status' = "PROCESSING"
          /\ requests' = Append(requests,
                                [item |-> selectedItem,
                                 promptToUse |-> promptToUse,
                                 mounted |-> TRUE])
          /\ UNCHANGED << appVars, prompt, resultText, generatedImageUrl,
                          isEditingName, tempName, showSaveOptions, saveName,
                          uploads, saves, clock, nextId >>

\* Enter in the prompt input, or the send button (which needs a non-blank prompt);
\* both are disabled while PROCESSING
submitPrompt ==
  /\ selectedItem # Null
  /\ status # "PROCESSING"
  /\ handleAction(Undefined)

\* handleAction after its await, for the k-th pending call and a service answer
handleActionResume(k, response) ==
  /\ k \in DOMAIN requests
  /\ LET r == requests[k]
         result == IF r.item.type = "image"
                   THEN editImageWithGemini(response)
                   ELSE analyzeVideoWithGemini(response)
     IN IF ~result.ok
        THEN /\ IF r.mounted
                THEN resultText' = ErrorMessage /\ status' = "ERROR"
                ELSE UNCHANGED << resultText, status >>
             /\ UNCHANGED << mediaItems, selectedItem, prompt, generatedImageUrl,
                             tempName, saveName, showSaveOptions >>
        ELSE IF r.item.type = "image"
        THEN /\ IF r.mounted
                THEN /\ generatedImageUrl' = result.value
                     /\ resultText' = EditedMessage
                     /\ status' = "SUCCESS"
                ELSE UNCHANGED << generatedImageUrl, resultText, status >>
             /\ UNCHANGED << mediaItems, selectedItem, prompt, tempName, saveName,
                             showSaveOptions >>
        ELSE handleUpdateItem(r.item.id, [aiDescription |-> result.value], r.item)
  /\ requests' = RemoveAt(requests, k)
  /\ UNCHANGED << folders, currentFolder, searchQuery, typeFilter, isUploading,
                  newFolderInput, showNewFolderInput, isEditingName,
                  uploads, saves, clock, nextId >>

\* the pencil button next to the name
startEditingName ==
  /\ selectedItem # Null
  /\ ~isEditingName
  /\ isEditingName' = TRUE
  /\ UNCHANGED << appVars, prompt, status, resultText, generatedImageUrl, tempName,
                  showSaveOptions, saveName, uploads, requests, saves, clock, nextId >>

\* onChange of the name input
setTempName(text) ==
  /\ selectedItem # Null
  /\ isEditingName
  /\ text # tempName
  /\ tempName' = text
  /\ UNCHANGED << appVars, prompt, status, resultText, generatedImageUrl,
                  isEditingName, showSaveOptions, saveName,
                  uploads, requests, saves, clock, nextId >>

\* Enter in the name input, or the check button
handleRename ==
  /\ selectedItem # Null
  /\ isEditingName
  /\ IF Truthy(Trim(tempName))
     THEN /\ handleUpdateItem(selectedItem.id, [name |-> tempName], selectedItem)
          /\ isEditingName' = FALSE
          /\ UNCHANGED << folders, currentFolder, searchQuery, typeFilter,
                          isUploading, newFolderInput, showNewFolderInput,
                          uploads, requests, saves, clock, nextId >>
     ELSE UNCHANGED vars

\* onChange of the folder select, whose options are the folder list
handleFolderChange(value) ==
  /\ selectedItem # Null
  /\ value \in Range(folders)
  /\ value # selectedItem.folder
  /\ handleUpdateItem(selectedItem.id, [folder |-> value], selectedItem)
  /\ UNCHANGED << folders, currentFolder, searchQuery, typeFilter, isUploading,
                  newFolderInput, showNewFolderInput, isEditingName,
                  uploads, requests, saves, clock, nextId >>

\* the "Iptal" button of the compare view
discardGenerated ==
  /\ selectedItem # Null
  /\ generatedImageUrl # Null
  /\ ~showSaveOptions
  /\ generatedImageUrl' = Null
  /\ UNCHANGED << appVars, prompt, status, resultText, isEditingName, tempName,
                  showSaveOptions, saveName, uploads, requests, saves, clock, nextId >>

\* the "Kaydet" button of the compare view
openSaveOptions ==
  /\ selectedItem # Null
  /\ generatedImageUrl # Null
  /\ ~showSaveOptions
  /\ showSaveOptions' = TRUE
  /\ UNCHANGED << appVars, prompt, status, resultText, generatedImageUrl,
                  isEditingName, tempName, saveName,
                  uploads, requests, saves, clock, nextId >>

\* onChange of the file-name input of the save options
setSaveName(text) ==
  /\ selectedItem # Null
  /\ generatedImageUrl # Null
  /\ showSaveOptions
  /\ text # saveName
  /\ saveName' = text
  /\ UNCHANGED << appVars, prompt, status, resultText, generatedImageUrl,
                  isEditingName, tempName, showSaveOptions,
                  uploads, requests, saves, clock, nextId >>

\* handleSaveGenerated up to its await; the closure keeps the render's mediaItems
\* and currentFolder
handleSaveGenerated(originalId, base64Url, name, mode) ==
  saves' = Append(saves, [originalId |-> originalId,
                          base64Url |-> base64Url,
                          name |-> name,
                          mode |-> mode,
                          mediaItems |-> mediaItems,
                          currentFolder |-> currentFolder])

\* the two buttons of the save options
executeSave(mode) ==
  /\ selectedItem # Null
  /\ generatedImageUrl # Null
  /\ showSaveOptions
  /\ IF generatedImageUrl # Null /\ Truthy(Trim(saveName))
     THEN /\ Len(saves) < MaxSaves
          /\ handleSaveGenerated(selectedItem.id, generatedImageUrl, saveName, mode)
          /\ showSaveOptions' = FALSE
          /\ generatedImageUrl' =
               (IF mode = "overwrite" THEN Null ELSE generatedImageUrl)
          /\ UNCHANGED << appVars, prompt, status, resultText, isEditingName,
                          tempName, saveName, uploads, requests, clock, nextId >>
     ELSE UNCHANGED vars

PngSuffix == <<".", "p", "n", "g">>

\* a new item that is the original with the generated image put into it
NewGeneratedItem_CopyingOriginal(s, id, url, file, now) ==
  Merge(Find(s.mediaItems, s.originalId),
        [url |-> url, file |-> file, name |-> s.name, timestamp |-> now,
         isGenerated |-> TRUE])

\* the item save-as-new makes for the pending call s; originalItem is looked up in
\* the media list of the render that started the call
NewGeneratedItem(s, id, url, file, now) ==
  LET originalItem == Find(s.mediaItems, s.originalId)
  IN [ id |-> id,
       type |-> "image",
       url |-> url,
       file |-> file,
       name |-> s.name,
       timestamp |-> now,
       aiDescription |-> Undefined,
       isGenerated |-> TRUE,
       folder |-> IF originalItem # Null THEN originalItem.folder ELSE s.currentFolder ]

\* an overwrite that keeps the entry's old timestamp
OverwriteUpdates_NoTimestamp(s, url, file, now) ==
  [url |-> url, file |-> file, name |-> s.name, isGenerated |-> TRUE]

\* what overwrite puts into the list entry of the original item
OverwriteUpdates(s, url, file, now) ==
  [url |-> url, file |-> file, name |-> s.name, isGenerated |-> TRUE,
   timestamp |-> now]

\* handleSaveGenerated after its await, for the k-th pending call; fetched says
\* whether base64ToBlob resolved
handleSaveGeneratedResume(k, fetched) ==
  /\ k \in DOMAIN saves
  /\ saves' = RemoveAt(saves, k)
  /\ IF ~fetched
     THEN UNCHANGED << appVars, modalVars, uploads, requests, clock, nextId >>
     ELSE LET s == saves[k]
              blob == [data |-> s.base64Url.data, type |-> MimePng]
              file == [name |-> s.name \o PngSuffix, type |-> MimePng,
                       data |-> blob.data]
              url == CreateObjectURL(blob)
              now == clock + 1
          IN /\ clock < MaxClock
             /\ clock' = now
             /\ IF s.mode = "overwrite"
                THEN /\ mediaItems' =
                          UpdatedList(mediaItems, s.originalId,
                                      OverwriteUpdates(s, url, file, now))
                     /\ selectedItem' =
                          (IF selectedItem # Null
                           THEN Merge(selectedItem,
                                      [url |-> url, file |-> file, name |-> s.name,
                                       isGenerated |-> TRUE])
                           ELSE Null)
                     /\ IF selectedItem # Null
                        THEN EffectReset(selectedItem')
                        ELSE UNCHANGED << prompt, status, resultText,
                                          generatedImageUrl, tempName, saveName,
                                          showSaveOptions >>
                     /\ UNCHANGED nextId
                ELSE LET newItem == NewGeneratedItem(s, nextId, url, file, now)
                     IN /\ mediaItems' = Prepend(<<newItem>>, mediaItems)
                        /\ nextId' = nextId + 1
                        /\ UNCHANGED << selectedItem, prompt, status, resultText,
                                        generatedImageUrl, tempName, saveName,
                                        showSaveOptions >>
             /\ UNCHANGED << folders, currentFolder, searchQuery, typeFilter,
                             isUploading, newFolderInput, showNewFolderInput,
                             isEditingName, uploads, requests >>

(* ------------------------------ Next ----------------------------------- *)
\* a step of the session named
In(name) == session = name /\ UNCHANGED session

\* the FileLists a drop or the picker may deliver
FileLists ==
  { <<ImageFile>>, <<VideoFile>>, <<TextFile>>, <<TextFile, ImageFile>>,
    <<VideoFile, ImageFile>> }
TwoFolders == { DEFAULT_FOLDER, <<"I", "s">> }

\* uploading: drops and picks of every kind of FileList, into two of the folders
NextUpload ==
  \/ In("upload") /\ \E files \in FileLists : handleDrop(files)
  \/ In("upload") /\ \E files \in FileLists : handleChange(files)
  \/ In("upload") /\ \E k \in 1..MaxUploads : handleFilesResume(k)
  \/ In("upload") /\ \E folder \in TwoFolders : setCurrentFolder(folder)

\* what the user may type as a folder name
FolderInputs ==
  { <<" ">>, <<"x">>, <<" ", "x">>, <<"y", " ">>, DEFAULT_FOLDER \o <<" ">> }

\* organising: folders are created and visited, an image is uploaded and moved
NextFolders ==
  \/ In("folders") /\ openNewFolderInput
  \/ In("folders") /\ \E text \in FolderInputs : setNewFolderInput(text)
  \/ In("folders") /\ addFolder
  \/ In("folders") /\ \E k \in 1..MaxFolders :
       k \in DOMAIN folders /\ setCurrentFolder(folders[k])
  \/ In("folders") /\ mediaItems = <<>> /\ uploads = <<>> /\ handleDrop(<<ImageFile>>)
  \/ In("folders") /\ \E k \in 1..MaxUploads : handleFilesResume(k)
  \/ In("folders") /\ \E k \in 1..MaxItems : setSelectedItem(k)
  \/ In("folders") /\ \E k \in 1..MaxFolders :
       k \in DOMAIN folders /\ handleFolderChange(folders[k])
  \/ In("folders") /\ onClose

\* what the user may type into the search box
SearchInputs == { <<>>, <<"v">>, <<"A">> }

\* browsing: uploads into two folders, then searching and filtering
NextFilter ==
  \/ In("filter") /\ \E files \in { <<ImageFile>>, <<VideoFile>> } : handleDrop(files)
  \/ In("filter") /\ \E k \in 1..MaxUploads : handleFilesResume(k)
  \/ In("filter") /\ \E folder \in TwoFolders : setCurrentFolder(folder)
  \/ In("filter") /\ \E text \in SearchInputs : setSearchQuery(text)
  \/ In("filter") /\ \E filter \in {"all", "image", "video"} : setTypeFilter(filter)

\* what the user may type as an item name
NameInputs == { <<" ">>, <<"b">>, <<"b", " ">> }

\* renaming and moving the items of a small library
NextRename ==
  \/ In("rename") /\ uploads = <<>>
       /\ \E files \in { <<ImageFile>>, <<VideoFile>> } : handleDrop(files)
  \/ In("rename") /\ \E k \in 1..MaxUploads : handleFilesResume(k)
  \/ In("rename") /\ \E k \in 1..MaxItems : setSelectedItem(k)
  \/ In("rename") /\ onClose
  \/ In("rename") /\ startEditingName
  \/ In("rename") /\ \E text \in NameInputs : setTempName(text)
  \/ In("rename") /\ handleRename
  \/ In("rename") /\ \E value \in TwoFolders : handleFolderChange(value)

\* what the user may type as a prompt
PromptInputs == { <<" ">>, <<"p">> }

\* asking the service about a video and an image, renaming while it works
NextAsk ==
  \/ In("ask") /\ mediaItems = <<>> /\ uploads = <<>>
       /\ handleDrop(<<VideoFile, ImageFile>>)
  \/ In("ask") /\ \E k \in 1..MaxUploads : handleFilesResume(k)
  \/ In("ask") /\ \E k \in 1..MaxItems : setSelectedItem(k)
  \/ In("ask") /\ onClose
  \/ In("ask") /\ \E text \in PromptInputs : setPrompt(text)
  \/ In("ask") /\ submitPrompt
  \/ In("ask") /\ \E k \in 1..MaxRequests, response \in ImageResponses \cup VideoResponses :
       handleActionResume(k, response)
  \/ In("ask") /\ startEditingName
  \/ In("ask") /\ setTempName(<<"b">>)
  \/ In("ask") /\ handleRename

\* what the user may type as the save name
SaveNameInputs == { <<" ">>, <<"c">> }

\* the answers the service gives in the save session: a failure and an image
SaveResponses ==
  { [rejected |-> TRUE],
    [text |-> <<>>, candidates |-> << Candidate(<< Part(<<"g", "1">>) >>) >>] }

\* editing an image and saving the results, moving the image while a save is under way
NextSave ==
  \/ In("save") /\ mediaItems = <<>> /\ uploads = <<>> /\ handleDrop(<<ImageFile>>)
  \/ In("save") /\ \E k \in 1..MaxUploads : handleFilesResume(k)
  \/ In("save") /\ \E k \in 1..MaxItems : setSelectedItem(k)
  \/ In("save") /\ onClose
  \/ In("save") /\ setPrompt(<<"p">>)
  \/ In("save") /\ requests = <<>> /\ submitPrompt
  \/ In("save") /\ \E k \in 1..MaxRequests, response \in SaveResponses :
       handleActionResume(k, response)
  \/ In("save") /\ discardGenerated
  \/ In("save") /\ openSaveOptions
  \/ In("save") /\ \E text \in SaveNameInputs : setSaveName(text)
  \/ In("save") /\ \E mode \in {"new", "overwrite"} : executeSave(mode)
  \/ In("save") /\ \E k \in 1..MaxSaves, fetched \in BOOLEAN :
       handleSaveGeneratedResume(k, fetched)
  \/ In("save") /\ saves # <<>> /\ saves[1].mode = "new" /\ Len(mediaItems) = 1
       /\ handleFolderChange(<<"I", "s">>)

Next ==
  \/ NextUpload
  \/ NextFolders
  \/ NextFilter
  \/ NextRename
  \/ NextAsk
  \/ NextSave

Spec == Init /\ [][Next]_vars

(* ------------------------------ claims --------------------------------- *)
\* the text is empty or consists of white space only
IsBlank(text) == \A i \in DOMAIN text : text[i] = " "

IsMediaFile(file) ==
  \/ StartsWith(file.type, <<"i", "m", "a", "g", "e", "/">>)
  \/ StartsWith(file.type, <<"v", "i", "d", "e", "o", "/">>)

\* C1, as claimed: an upload of one file adds exactly one item to the media list,
\* and the item's folder is the current folder
C1_OneItemInCurrentFolder ==
  [][\A k \in DOMAIN uploads :
       (handleFilesResume(k) /\ Len(uploads[k].files) = 1)
         => /\ Len(mediaItems') = Len(mediaItems) + 1
            /\ mediaItems'[1].folder = currentFolder]_vars

\* C1, amended: an upload of one image or video file adds exactly one item, at the
\* front of the media list, in the folder that was current when the upload was
\* started; an upload of one file of another type leaves the media list as it is
C1_OneMediaItemInStartFolder ==
  [][\A k \in DOMAIN uploads :
       (handleFilesResume(k) /\ Len(uploads[k].files) = 1)
         => IF IsMediaFile(uploads[k].files[1])
            THEN /\ Len(mediaItems') = Len(mediaItems) + 1
                 /\ Tail(mediaItems') = mediaItems
                 /\ mediaItems'[1].folder = uploads[k].currentFolder
                 /\ mediaItems'[1].file = uploads[k].files[1]
            ELSE mediaItems' = mediaItems]_vars

\* an upload has finished after the user went on to another folder
C1_Witness ==
  /\ session = "upload"
  /\ Len(mediaItems) = 1
  /\ uploads = <<>>
  /\ ~isUploading
  /\ mediaItems[1].folder # currentFolder

\* C2: a rename with a non-blank name puts the new name on the list entry with the
\* item's id and on the selected item; a blank name changes neither
C2_RenameBoth ==
  [][handleRename
       => IF IsBlank(tempName)
          THEN UNCHANGED << mediaItems, selectedItem >>
          ELSE /\ selectedItem' # Null
               /\ selectedItem'.id = selectedItem.id
               /\ selectedItem'.name = tempName
               /\ Find(mediaItems', selectedItem.id) # Null
               /\ Find(mediaItems', selectedItem.id).name = tempName]_vars

\* the open item and its list entry carry a typed name
C2_Witness ==
  /\ session = "rename"
  /\ selectedItem # Null
  /\ selectedItem.name = <<"b", " ">>
  /\ Find(mediaItems, selectedItem.id).name = <<"b", " ">>
  /\ tempName = <<" ">>

\* C3: every item's folder is exactly one member of the folder list, and so is the
\* current folder
C3_FoldersExist ==
  /\ \A i \in DOMAIN mediaItems :
       Cardinality({k \in DOMAIN folders : folders[k] = mediaItems[i].folder}) = 1
  /\ Cardinality({k \in DOMAIN folders : folders[k] = currentFolder}) = 1

\* an item has been moved into a folder the user created, another folder is shown
C3_Witness ==
  /\ mediaItems # <<>>
  /\ mediaItems[1].folder = <<"x">>
  /\ currentFolder = <<"y">>

\* C4: no step removes an item id from the media list, so its length never drops
C4_NeverRemoved ==
  [][/\ Ids(mediaItems) \subseteq Ids(mediaItems')
     /\ Len(mediaItems') >= Len(mediaItems)]_vars

\* three uploads have landed on top of each other
C4_Witness ==
  /\ Len(mediaItems) = 3
  /\ Cardinality(Ids(mediaItems)) = 3
  /\ clock = 3

\* the answers the service gives in any session
AllResponses == ImageResponses \cup VideoResponses \cup SaveResponses

\* the call a pending handleAction made fails on this answer
Failed(request, response) ==
  IF request.item.type = "image"
  THEN ~editImageWithGemini(response).ok
  ELSE ~analyzeVideoWithGemini(response).ok

ShowsGenericError == status' = "ERROR" /\ resultText' = ErrorMessage

\* C5, as claimed: every failure of an asynchronous operation started from the modal
\* (image edit, video analysis, saving a generated image) puts the open modal into
\* status ERROR with the generic message
C5_FailuresShown ==
  [][/\ \A k \in DOMAIN requests, response \in AllResponses :
          ( /\ handleActionResume(k, response)
            /\ requests[k].mounted
            /\ Failed(requests[k], response) ) => ShowsGenericError
     /\ \A k \in DOMAIN saves :
          ( /\ handleSaveGeneratedResume(k, FALSE)
            /\ selectedItem # Null
            /\ selectedItem.id = saves[k].originalId ) => ShowsGenericError]_vars

\* C6, as claimed: a step that changes an existing entry of the media list is a
\* rename, a move to a folder or an overwrite-save
C6_ChangedOnlyByRenameMoveOverwrite ==
  [][(\E i \in DOMAIN mediaItems :
        Find(mediaItems', mediaItems[i].id) # mediaItems[i])
       => \/ handleRename
          \/ \E value \in Range(folders) : handleFolderChange(value)
          \/ \E k \in DOMAIN saves :
               saves[k].mode = "overwrite" /\ handleSaveGeneratedResume(k, TRUE)]_vars

\* C6, amended: an existing entry changes only in a rename (its name), a move (its
\* folder), an overwrite-save (its url, file, name, isGenerated, timestamp) or the
\* completion of a successful video analysis (its aiDescription), and only the entry
\* that operation is about
C6_ChangedOnlyByUpdates ==
  [][\A i \in DOMAIN mediaItems :
       LET old == mediaItems[i]
           new == Find(mediaItems', old.id)
       IN new # old
            => \/ /\ handleRename
                  /\ old.id = selectedItem.id
                  /\ new = [old EXCEPT !.name = tempName]
               \/ \E value \in Range(folders) :
                    /\ handleFolderChange(value)
                    /\ old.id = selectedItem.id
                    /\ new = [old EXCEPT !.folder = value]
               \/ \E k \in DOMAIN saves :
                    /\ saves[k].mode = "overwrite"
                    /\ handleSaveGeneratedResume(k, TRUE)
                    /\ old.id = saves[k].originalId
                    /\ new = [old EXCEPT !.url = new.url, !.file = new.file,
                                         !.name = new.name, !.isGenerated = TRUE,
                                         !.timestamp = new.timestamp]
               \/ \E k \in DOMAIN requests, response \in AllResponses :
                    /\ handleActionResume(k, response)
                    /\ requests[k].item.type = "video"
                    /\ ~Failed(requests[k], response)
                    /\ old.id = requests[k].item.id
                    /\ new = [old EXCEPT !.aiDescription = new.aiDescription]]_vars

\* an entry carries an analysis, another one has been renamed
C6_Witness ==
  /\ session = "ask"
  /\ \E i \in DOMAIN mediaItems : mediaItems[i].aiDescription = <<"o", "k">>
  /\ \E i \in DOMAIN mediaItems : mediaItems[i].name = <<"b">>

Spaces(n) == [i \in 1..n |-> " "]

\* text is input without its leading and trailing white space
IsTrimOf(text, input) ==
  /\ text # <<>>
  /\ text[1] # " "
  /\ text[Len(text)] # " "
  /\ \E before, after \in 0..Len(input) :
       input = Spaces(before) \o text \o Spaces(after)

\* C7: the folder list has no duplicate and no blank name and starts with the
\* default folders; addFolder appends the trimmed input exactly when it is not
\* blank and not in the list yet; no step removes or replaces a folder
C7_FolderList ==
  /\ [](/\ \A j, k \in DOMAIN folders : folders[j] = folders[k] => j = k
        /\ \A k \in DOMAIN folders : ~IsBlank(folders[k])
        /\ SubSeq(folders, 1, Len(DefaultFolders)) = DefaultFolders)
  /\ [][/\ Len(folders') >= Len(folders)
        /\ SubSeq(folders', 1, Len(folders)) = folders
        /\ addFolder
             => IF \/ IsBlank(newFolderInput)
                   \/ \E k \in DOMAIN folders : IsTrimOf(folders[k], newFolderInput)
                THEN folders' = folders
                ELSE /\ Len(folders') = Len(folders) + 1
                     /\ IsTrimOf(folders'[Len(folders')], newFolderInput)]_vars

\* two folders have been added, and a name that only differs by white space from
\* an existing one is in the input
C7_Witness ==
  /\ Len(folders) = Len(DefaultFolders) + 2
  /\ showNewFolderInput
  /\ newFolderInput = <<" ", "x">>
  /\ \E k \in DOMAIN folders : folders[k] = <<"x">>

\* the analysis text analyzeVideoWithGemini makes of a resolved answer
AnalysisOf(response) ==
  IF Has(response, "text") /\ response.text # <<>> /\ response.text # Undefined
  THEN response.text
  ELSE VideoFallback

\* C8: a video analysis whose modal has been closed still ends, when it succeeds,
\* with its text as aiDescription of the entry it was started for
C8_AnalysisKeptAfterClose ==
  [][\A k \in DOMAIN requests, response \in AllResponses :
       ( /\ handleActionResume(k, response)
         /\ requests[k].item.type = "video"
         /\ ~requests[k].mounted
         /\ ~Rejected(response) )
         => /\ Find(mediaItems', requests[k].item.id) # Null
            /\ Find(mediaItems', requests[k].item.id).aiDescription
                 = AnalysisOf(response)]_vars

\* the analysis of the video arrived while the image was open
C8_Witness ==
  /\ session = "ask"
  /\ requests = <<>>
  /\ selectedItem # Null
  /\ selectedItem.type = "image"
  /\ selectedItem.aiDescription = <<"o", "k">>
  /\ \E i \in DOMAIN mediaItems :
       mediaItems[i].type = "video" /\ mediaItems[i].aiDescription = <<"o", "k">>

\* the parts of the first candidate of an answer, none when there is no such thing
FirstCandidateParts(response) ==
  IF /\ ~Rejected(response)
     /\ Has(response, "candidates")
     /\ response.candidates # <<>>
     /\ Has(response.candidates[1], "content")
     /\ Has(response.candidates[1].content, "parts")
  THEN response.candidates[1].content.parts
  ELSE <<>>

\* the positions of the parts that carry inline data
InlinePositions(parts) ==
  {j \in DOMAIN parts : Has(parts[j], "inlineData") /\ parts[j].inlineData.data # <<>>}

Least(S) == CHOOSE x \in S : \A y \in S : x <= y

\* C9: an image edit yields the data of the first part of the first candidate that
\* carries inline data, as a PNG data URL, and fails when there is none; a video
\* analysis yields the answer's text, or the fallback text when that is empty, and
\* does not fail on a resolved answer
C9_ServiceResults ==
  [][\A k \in DOMAIN requests, response \in AllResponses :
       (handleActionResume(k, response) /\ requests[k].mounted)
         => LET parts == FirstCandidateParts(response)
            IN IF requests[k].item.type = "image"
               THEN IF InlinePositions(parts) = {}
                    THEN ShowsGenericError /\ UNCHANGED generatedImageUrl
                    ELSE /\ status' = "SUCCESS"
                         /\ generatedImageUrl'
                              = [prefix |-> "data:image/png;base64,",
                                 data |-> parts[Least(InlinePositions(parts))]
                                            .inlineData.data]
               ELSE IF Rejected(response)
                    THEN ShowsGenericError /\ UNCHANGED mediaItems
                    ELSE /\ status' # "ERROR"
                         /\ resultText' = AnalysisOf(response)
                         /\ Find(mediaItems', requests[k].item.id).aiDescription
                              = AnalysisOf(response)]_vars

\* an edit came back with an empty inline part ahead of the image
C9_Witness ==
  /\ session = "ask"
  /\ status = "SUCCESS"
  /\ generatedImageUrl # Null
  /\ generatedImageUrl.data = <<"g", "2">>

\* C10, as claimed: while an item is selected, the selected item equals the entry
\* of the media list with the same id, field for field
C10_SelectedEqualsEntry ==
  selectedItem # Null => Find(mediaItems, selectedItem.id) = selectedItem

\* the step leaves the selected item and every list entry but the one with the id
\* as they are
OnlyTouches(id) ==
  /\ selectedItem' = selectedItem
  /\ Len(mediaItems') = Len(mediaItems)
  /\ \A i \in DOMAIN mediaItems :
       mediaItems[i].id # id => mediaItems'[i] = mediaItems[i]

\* C11, as claimed: when the video analysis or the overwrite-save started on one item
\* completes while another item is open, neither the list entry nor the selected
\* copy of the open item receives the analysis text, the generated image or the
\* save name
C11_ResultStaysWithItem ==
  [][/\ \A k \in DOMAIN requests, response \in AllResponses :
          ( /\ handleActionResume(k, response)
            /\ selectedItem # Null
            /\ selectedItem.id # requests[k].item.id ) => OnlyTouches(requests[k].item.id)
     /\ \A k \in DOMAIN saves :
          ( /\ handleSaveGeneratedResume(k, TRUE)
            /\ saves[k].mode = "overwrite"
            /\ selectedItem # Null
            /\ selectedItem.id # saves[k].originalId ) => OnlyTouches(saves[k].originalId)]_vars

\* the requests started from the modal that is open now and not settled yet
InFlight == {k \in DOMAIN requests : requests[k].mounted}

\* C12, as claimed: the open modal has at most one request in flight, and while it
\* has one its status is PROCESSING
C12_OneRequestPerModal ==
  /\ Cardinality(InFlight) <= 1
  /\ InFlight # {} => status = "PROCESSING"

\* C13, as claimed: a request that settles in the open modal leaves the status
\* SUCCESS when the call succeeded and ERROR when it failed, for images and videos
\* alike; that status stays until a request is started or settles or another item
\* is shown; and sending a blank prompt changes nothing
C13_StatusAfterSettle ==
  [][/\ \A k \in DOMAIN requests, response \in AllResponses :
          (handleActionResume(k, response) /\ requests[k].mounted)
            => status' = (IF Failed(requests[k], response) THEN "ERROR" ELSE "SUCCESS")
     /\ (status \in {"SUCCESS", "ERROR"} /\ status' # status)
          => \/ status' = "PROCESSING"
             \/ selectedItem' = Null
             \/ selectedItem'.id # selectedItem.id
             \/ Len(requests') < Len(requests)
     /\ (submitPrompt /\ IsBlank(prompt)) => UNCHANGED vars]_vars

\* C14, as claimed: a rename or a move of the open item, which stays the open item,
\* leaves the typed prompt, the status, the unsaved generated image and the save
\* options as they are
C14_ResetOnlyOnSwitch ==
  [][( /\ selectedItem # Null
       /\ \/ handleRename
          \/ \E value \in Range(folders) : handleFolderChange(value)
       /\ selectedItem' # Null
       /\ selectedItem'.id = selectedItem.id )
       => UNCHANGED << prompt, status, generatedImageUrl, showSaveOptions >>]_vars

\* the step completes the k-th pending save, which is a save-as-new, and adds one
\* entry at the front: a generated image with a fresh id and the save's name, in the
\* folder given; nothing else in the list changes
AddsGenerated(k, folder) ==
  /\ Len(mediaItems') = Len(mediaItems) + 1
  /\ Tail(mediaItems') = mediaItems
  /\ mediaItems'[1].id \notin Ids(mediaItems)
  /\ mediaItems'[1].type = "image"
  /\ mediaItems'[1].isGenerated = TRUE
  /\ mediaItems'[1].name = saves[k].name
  /\ mediaItems'[1].folder = folder

\* a save is started only with a generated image and a non-blank save name
SaveNeedsImageAndName ==
  Len(saves') > Len(saves) => generatedImageUrl # Null /\ ~IsBlank(saveName)

\* C15, as claimed: a save-as-new that completes adds one generated image with a
\* fresh id in the folder the original item has, and changes nothing else
C15_NewInFolderOfOriginal ==
  [][/\ SaveNeedsImageAndName
     /\ \A k \in DOMAIN saves :
          (handleSaveGeneratedResume(k, TRUE) /\ saves[k].mode = "new")
            => AddsGenerated(k, Find(mediaItems, saves[k].originalId).folder)]_vars

\* C15, amended: a save-as-new that completes adds one generated image with a fresh
\* id in the folder the original item had when the save was started, and changes
\* nothing else; the ids of the list stay pairwise distinct
C15_NewInFolderAtStart ==
  /\ [](\A i, j \in DOMAIN mediaItems : mediaItems[i].id = mediaItems[j].id => i = j)
  /\ [][/\ SaveNeedsImageAndName
        /\ \A k \in DOMAIN saves :
             (handleSaveGeneratedResume(k, TRUE) /\ saves[k].mode = "new")
               => AddsGenerated(k, Find(saves[k].mediaItems, saves[k].originalId).folder)]_vars

\* a generated image was saved as new while its original was being moved
C15_Witness ==
  /\ session = "save"
  /\ saves = <<>>
  /\ Len(mediaItems) = 2
  /\ mediaItems[1].isGenerated
  /\ mediaItems[1].folder = DEFAULT_FOLDER
  /\ mediaItems[2].folder = <<"I", "s">>

\* C16: an overwrite-save that completes changes only the entry with the original
\* id, which keeps its id, type, folder, analysis and position and gets the generated
\* image as url and file, the save name, isGenerated and a later timestamp; the list
\* keeps its length; and the modal shows no unsaved generated image, neither after the
\* save was started nor after it completed
C16_OverwriteInPlace ==
  [][/\ \A k \in DOMAIN saves :
          (handleSaveGeneratedResume(k, TRUE) /\ saves[k].mode = "overwrite")
            => /\ Len(mediaItems') = Len(mediaItems)
               /\ \A i \in DOMAIN mediaItems :
                    LET old == mediaItems[i]
                        new == mediaItems'[i]
                    IN IF old.id = saves[k].originalId
                       THEN /\ new.id = old.id
                            /\ new.type = old.type
                            /\ new.folder = old.folder
                            /\ new.aiDescription = old.aiDescription
                            /\ new.url = [blob |-> saves[k].base64Url.data]
                            /\ new.file.data = saves[k].base64Url.data
                            /\ new.file.name = saves[k].name \o <<".", "p", "n", "g">>
                            /\ new.name = saves[k].name
                            /\ new.isGenerated = TRUE
                            /\ new.timestamp > old.timestamp
                       ELSE new = old
               /\ generatedImageUrl' = Null
     /\ (\E k \in DOMAIN saves' : k > Len(saves) /\ saves'[k].mode = "overwrite")
          => generatedImageUrl' = Null]_vars

\* the uploaded image was overwritten after a copy of it had been saved as new
C16_Witness ==
  /\ session = "save"
  /\ saves = <<>>
  /\ Len(mediaItems) = 2
  /\ mediaItems[2].id = 1
  /\ mediaItems[2].isGenerated
  /\ mediaItems[2].name = <<"c">>
  /\ mediaItems[2].timestamp > mediaItems[1].timestamp

\* C17, as claimed: isUploading is true exactly while a handleFiles call has started
\* and not yet added its items
C17_UploadingWhilePending ==
  isUploading <=> uploads # <<>>

\* C18: an upload that completes adds one item per image or video file of its batch,
\* in batch order and ahead of the previous entries, which stay as they are; each
\* new item has its file, the file's name, the type of the file's MIME type, the
\* folder that was current when the upload was started, and an id that is new and
\* its own
C18_BatchUpload ==
  [][\A k \in DOMAIN uploads :
       handleFilesResume(k)
         => LET media == SelectSeq(uploads[k].files, IsMediaFile)
                n == Len(media)
            IN /\ Len(mediaItems') = Len(mediaItems) + n
               /\ SubSeq(mediaItems', n + 1, Len(mediaItems')) = mediaItems
               /\ \A j \in 1..n :
                    LET item == mediaItems'[j]
                    IN /\ item.file = media[j]
                       /\ item.name = media[j].name
                       /\ item.type =
                            (IF StartsWith(media[j].type, <<"i", "m", "a", "g", "e", "/">>)
                             THEN "image" ELSE "video")
                       /\ item.folder = uploads[k].currentFolder
                       /\ item.id \notin Ids(mediaItems)
                       /\ \A i \in 1..n : mediaItems'[i].id = item.id => i = j]_vars

\* a batch of a video and an image has landed on top of an earlier upload, after the
\* user went on to another folder
C18_Witness ==
  /\ session = "upload"
  /\ Len(mediaItems) = 3
  /\ mediaItems[1].type = "video"
  /\ mediaItems[2].type = "image"
  /\ mediaItems[1].timestamp = mediaItems[2].timestamp
  /\ mediaItems[3].timestamp < mediaItems[2].timestamp
  /\ mediaItems[1].folder # currentFolder
  /\ mediaItems[2].folder # currentFolder

\* C19, as claimed: while an image is open and the modal is idle the preset buttons
\* are there, and they are never there for a video
C19_PresetsWhenIdle ==
  /\ (selectedItem # Null /\ selectedItem.type = "image" /\ status = "IDLE")
       => PresetsRendered
  /\ (selectedItem # Null /\ selectedItem.type = "video") => ~PresetsRendered

\* the same letter, whatever the case
SameLetter(a, b) ==
  \/ a = b
  \/ {a, b} \in { {"a", "A"}, {"v", "V"}, {"e", "E"} }

\* the query occurs in the name, letter for letter, whatever the case
ContainsIgnoringCase(name, query) ==
  \E k \in 0..(Len(name) - Len(query)) :
    \A j \in 1..Len(query) : SameLetter(name[k + j], query[j])

\* the positions of the media list that are to be displayed
Displayed ==
  {i \in DOMAIN mediaItems :
     /\ mediaItems[i].folder = currentFolder
     /\ typeFilter = "all" \/ mediaItems[i].type = typeFilter
     /\ ContainsIgnoringCase(mediaItems[i].name, searchQuery)}

\* the j-th position, in list order, of a set of positions
NthOf(S, j) == CHOOSE i \in S : Cardinality({h \in S : h < i}) = j - 1

RECURSIVE SumOfCounts(_)
SumOfCounts(k) == IF k = 0 THEN 0 ELSE FolderCount(folders[k]) + SumOfCounts(k - 1)

\* C20: the displayed list consists of the items of the media list, in list order,
\* that are in the current folder, have the type of the type filter unless that is
\* 'all', and whose name contains the search query whatever the case; and the counts
\* of the folders add up to the number of items
C20_DisplayedList ==
  /\ Len(filteredItems) = Cardinality(Displayed)
  /\ \A j \in DOMAIN filteredItems : filteredItems[j] = mediaItems[NthOf(Displayed, j)]
  /\ (searchQuery = <<>>
        => \A i \in DOMAIN mediaItems :
             ContainsIgnoringCase(mediaItems[i].name, searchQuery))
  /\ SumOfCounts(Len(folders)) = Len(mediaItems)

\* an upper-case query finds the image among three items in two folders
C20_Witness ==
  /\ session = "filter"
  /\ Len(mediaItems) = 3
  /\ searchQuery = <<"A">>
  /\ Len(filteredItems) = 1
  /\ filteredItems[1].name = <<"a">>
  /\ FolderCount(currentFolder) = 2
  /\ mediaItems[1].folder # currentFolder

====
